---- MODULE Spec2Model ----
(***************************************************************************)
(* A model of linkedin_agents.py: the Memory store (a JSON file guarded by  *)
(* a FileLock) used by concurrent workers, and the Orchestrator pipeline    *)
(* that researches, drafts, reviews, publishes and records a post.          *)
(***************************************************************************)
EXTENDS Naturals, Sequences, FiniteSets, TLC

\* ------------------------------------------------------------------ bounds

\* Operations each worker may start.
MaxCalls == 2

\* Operations all workers together may start when every kind is allowed.
MaxOps == 3

\* The workers (threads or processes) that share one store file.
Workers == {"w1", "w2"}

\* ------------------------------------------------------------- value sets

None == "None"
NoOwner == "nobody"

\* The i-th rule text of worker w ("Rule from thread {w} - {i}").
OwnRule(w, i) == <<w, i>>
RuleTexts == {OwnRule(w, i) : w \in Workers, i \in 0 .. (MaxCalls - 1)}
\* The rule texts used when every kind of operation runs.
SharedRules == {OwnRule(w, 0) : w \in Workers}

Topics == {"X"}
VibeNames == {"The Contrarian", "The Storyteller"}
Urns == {"urn:0", "urn:1"}
Packs == {"pack"}
Cutoffs == {0, 1}

\* A record's date: the ISO text written by add_post_history, the integer
\* millisecond text of older store files, or the word "manual".
IsoDate == [kind |-> "iso", t |-> 0]
IntDate(t) == [kind |-> "int", t |-> t]
LegacyRecord ==
    [date |-> IntDate(1), topic |-> "Old", vibe |-> "The Contrarian", urn |-> "urn:0",
     stats |-> [likes |-> 0, comments |-> 0]]

\* --------------------------------------------------------------- the store

VARIABLES
    file,          \* content of memory.json: [kind, store]
    archive,       \* content of memory_archive.json: a sequence of records
    lock,          \* the FileLock: [owner, count]
    pc,            \* where each worker is in its operation
    op,            \* the operation each worker is running, with its arguments
    data,          \* each worker's loaded dict
    result,        \* what each worker's last call returned
    moved,         \* archive_old_posts: each worker's list of records to archive
    calls,         \* operations each worker has started
    seenRules,     \* the rules list of the last complete store content
    log,           \* error events logged so far
    requested,     \* how often add_rule has been called with each rule text
    dash,          \* what dashboard.load_memory last did
    run,           \* Orchestrator.run_workflow: its position and its locals
    trace,         \* the stages the run has entered, in order
    net,           \* the requests LinkedInConnector.post_content has made
    before,        \* the store content when the run started
    agent,         \* one Agent.run call: its arguments, position and result
    critic,        \* one Critic.run call: its feedback, the rules it passed on, its result
    research       \* one ResearchManager.run call: its fetch tasks, results and document

workerVars == <<archive, lock, pc, op, data, moved, result, calls, log, requested, dash>>
runVars == <<run, trace, net, before>>
callVars == <<agent, critic, research>>
vars == <<file, seenRules, workerVars, runVars, callVars>>

EmptyStore ==
    [rules |-> <<>>, history |-> <<>>, latest_comment_pack |-> None, last_updated |-> None]

JsonFile(store) == [kind |-> "json", store |-> store]
\* open(path, "w") has emptied the file and json.dump has not finished.
PartialFile == [kind |-> "partial", store |-> EmptyStore]
\* The file holds text that is not valid JSON: what is left of a store's text.
CorruptFile(store) == [kind |-> "corrupt", store |-> store]
\* There is no file at the path.
AbsentFile == [kind |-> "absent", store |-> EmptyStore]

Range(s) == {s[i] : i \in 1 .. Len(s)}
IsPrefix(s, t) == Len(s) <= Len(t) /\ \A i \in 1 .. Len(s) : s[i] = t[i]
NoDuplicates(s) == \A i, j \in 1 .. Len(s) : s[i] = s[j] => i = j

\* json.load of the file inside _load: the except branches return the empty
\* store.
LoadStoreLenient(f) == f.store
LoadStore(f) == IF f.kind = "json" THEN f.store ELSE EmptyStore
LoadLog(f) == IF f.kind \in {"json", "absent"} THEN {} ELSE {"corrupted"}

\* ---- FileLock: one owner at a time, re-entrant for the owner.
CanAcquireFree(w) == lock.owner = NoOwner
CanAcquire(w) == lock.owner \in {NoOwner, w}
Acquired(w) == [owner |-> w, count |-> lock.count + 1]
Released(w) ==
    IF lock.count <= 1 THEN [owner |-> NoOwner, count |-> 0]
    ELSE [owner |-> w, count |-> lock.count - 1]

\* _load takes the lock for its read.
LoadGuardNoLock(w) == TRUE
LoadGuard(w) == CanAcquire(w)

\* The operations whose body runs inside "with self.lock".
UsesLockNone(name) == FALSE
UsesLock(name) == name \in {"add_rule", "add_post_history", "update_post_stats"}

NoOp ==
    [name |-> "none", rule |-> None, topic |-> None, vibe |-> None, urn |-> None,
     likes |-> 0, comments |-> 0, pack |-> None, cutoff |-> 0]

\* ---- the dict each operation builds from what it loaded

\* add_rule: append unless already present ("rule not in data['rules']").
RulePresentNever(d, rule) == FALSE
RulePresent(d, rule) == rule \in Range(d.rules)
WithRule(d, rule) ==
    IF RulePresent(d, rule) THEN d ELSE [d EXCEPT !.rules = Append(@, rule)]

NewPost(topic, vibe, urn) ==
    [date |-> IsoDate, topic |-> topic, vibe |-> vibe, urn |-> urn,
     stats |-> [likes |-> 0, comments |-> 0]]
WithPostSwapped(d, topic, vibe, urn) ==
    [d EXCEPT !.history = Append(@, NewPost(vibe, topic, urn))]
WithPostFirst(d, topic, vibe, urn) ==
    [d EXCEPT !.history = <<NewPost(topic, vibe, urn)>> \o @]
WithPost(d, topic, vibe, urn) ==
    [d EXCEPT !.history = Append(@, NewPost(topic, vibe, urn))]

\* update_post_stats: the first record with that urn, then break.
FirstRecord(h, urn) == IF h # <<>> THEN 1 ELSE 0
FirstWithUrn(h, urn) ==
    IF \E i \in 1 .. Len(h) : h[i].urn = urn
    THEN CHOOSE i \in 1 .. Len(h) :
            h[i].urn = urn /\ \A j \in 1 .. (i - 1) : h[j].urn # urn
    ELSE 0
WithStats(d, urn, likes, comments) ==
    LET i == FirstWithUrn(d.history, urn) IN
    IF i = 0 THEN d
    ELSE [d EXCEPT !.history[i].stats = [likes |-> likes, comments |-> comments]]

WithPack(d, pack, runId) ==
    [d EXCEPT !.latest_comment_pack = pack, !.last_updated = runId]

\* archive_old_posts: int(date) raises for ISO text and for "manual"; such
\* records are kept, and so is every record with date > cutoff.
Keeps(post, cutoff) ==
    IF post.date.kind = "int" THEN post.date.t > cutoff ELSE TRUE
KeptPosts(h, cutoff) == LET K(p) == Keeps(p, cutoff) IN SelectSeq(h, K)
ArchivedPosts(h, cutoff) == LET A(p) == ~Keeps(p, cutoff) IN SelectSeq(h, A)

\* get_performance_insights: max() returns the first record with the most
\* likes.
BestPostFirst(h) == 1
BestPost(h) ==
    CHOOSE i \in 1 .. Len(h) :
        /\ \A j \in 1 .. Len(h) : h[j].stats.likes <= h[i].stats.likes
        /\ \A j \in 1 .. (i - 1) : h[j].stats.likes < h[i].stats.likes
Insights(d) ==
    IF d.history = <<>> THEN [kind |-> "no data", vibe |-> None]
    ELSE IF d.history[BestPost(d.history)].stats.likes > 0
         THEN [kind |-> "best", vibe |-> d.history[BestPost(d.history)].vibe]
         ELSE [kind |-> "not enough", vibe |-> None]

\* ------------------------------------------------- the workers' operations

RECURSIVE SumOver(_, _)
SumOver(f, S) ==
    IF S = {} THEN 0 ELSE LET w == CHOOSE x \in S : TRUE IN f[w] + SumOver(f, S \ {w})

\* A worker between calls, with calls left to make.
Idle(w) == pc[w] = "idle" /\ calls[w] < MaxCalls
Budget == SumOver(calls, Workers) < MaxOps

NoResult == [kind |-> "none", value |-> None]

\* Entering an operation: "with self.lock" for those that have it.
Begin(w, o) ==
    /\ Idle(w)
    /\ IF UsesLock(o.name)
       THEN CanAcquire(w) /\ lock' = Acquired(w)
       ELSE lock' = lock
    /\ op' = [op EXCEPT ![w] = o]
    /\ pc' = [pc EXCEPT ![w] = "load"]
    /\ calls' = [calls EXCEPT ![w] = @ + 1]
    /\ result' = [result EXCEPT ![w] = NoResult]
    /\ requested' = IF o.name = "add_rule"
                    THEN [requested EXCEPT ![o.rule] = @ + 1]
                    ELSE requested
    /\ UNCHANGED <<file, archive, data, moved, seenRules, log, dash, runVars, callVars>>

AddRuleBegin(w, rule) == Begin(w, [NoOp EXCEPT !.name = "add_rule", !.rule = rule])

AddPostHistoryBegin(w, topic, vibe, urn) ==
    Begin(w, [NoOp EXCEPT !.name = "add_post_history", !.topic = topic,
                          !.vibe = vibe, !.urn = urn])

UpdatePostStatsBegin(w, urn, likes, comments) ==
    Begin(w, [NoOp EXCEPT !.name = "update_post_stats", !.urn = urn,
                          !.likes = likes, !.comments = comments])

SaveCommentPackBegin(w, pack) ==
    Begin(w, [NoOp EXCEPT !.name = "save_comment_pack", !.pack = pack])

ArchiveOldPostsBegin(w, cutoff) ==
    Begin(w, [NoOp EXCEPT !.name = "archive_old_posts", !.cutoff = cutoff])

\* os.path.exists(self.file_path)
ExistsNever(f) == FALSE
Exists(f) == f.kind # "absent"

\* Memory.__init__: the file is seeded with the empty store when the path
\* does not exist; the write is that of _save.
MemoryInit(w) ==
    /\ Idle(w)
    /\ calls' = [calls EXCEPT ![w] = @ + 1]
    /\ IF Exists(file)
       THEN /\ result' = [result EXCEPT ![w] = [kind |-> "memory", value |-> "found"]]
            /\ UNCHANGED <<pc, op, data>>
       ELSE /\ op' = [op EXCEPT ![w] = [NoOp EXCEPT !.name = "__init__"]]
            /\ pc' = [pc EXCEPT ![w] = "save"]
            /\ data' = [data EXCEPT ![w] = EmptyStore]
            /\ result' = [result EXCEPT ![w] = NoResult]
    /\ UNCHANGED <<file, archive, lock, moved, seenRules, log, requested, dash, runVars, callVars>>

\* The operation's _load: the lock is taken for the read and given back.
Loaded(w, name) ==
    /\ pc[w] = "load"
    /\ op[w].name = name
    /\ LoadGuard(w)
    /\ log' = log \cup LoadLog(file)

\* The operation goes on to position p with dict d.
Continue(w, p, d) ==
    /\ pc' = [pc EXCEPT ![w] = p]
    /\ data' = [data EXCEPT ![w] = d]
    /\ UNCHANGED <<op, result>>

\* The operation returns value v: its locals are gone.
Finish(w, v) ==
    /\ pc' = [pc EXCEPT ![w] = "idle"]
    /\ op' = [op EXCEPT ![w] = NoOp]
    /\ data' = [data EXCEPT ![w] = EmptyStore]
    /\ result' = [result EXCEPT ![w] = v]

AddRuleLoad(w) ==
    /\ Loaded(w, "add_rule")
    /\ LET d == LoadStore(file) IN
       IF RulePresent(d, op[w].rule)
       THEN Continue(w, "unlock", d)
       ELSE Continue(w, "save", WithRule(d, op[w].rule))
    /\ UNCHANGED <<file, archive, lock, moved, calls, seenRules, requested, dash, runVars, callVars>>

AddPostHistoryLoad(w) ==
    /\ Loaded(w, "add_post_history")
    /\ Continue(w, "save", WithPost(LoadStore(file), op[w].topic, op[w].vibe, op[w].urn))
    /\ UNCHANGED <<file, archive, lock, moved, calls, seenRules, requested, dash, runVars, callVars>>

UpdatePostStatsLoad(w) ==
    /\ Loaded(w, "update_post_stats")
    /\ Continue(w, "save",
                WithStats(LoadStore(file), op[w].urn, op[w].likes, op[w].comments))
    /\ UNCHANGED <<file, archive, lock, moved, calls, seenRules, requested, dash, runVars, callVars>>

SaveCommentPackLoad(w) ==
    /\ Loaded(w, "save_comment_pack")
    /\ Continue(w, "save", WithPack(LoadStore(file), op[w].pack, "manual"))
    /\ UNCHANGED <<file, archive, lock, moved, calls, seenRules, requested, dash, runVars, callVars>>

\* archive_old_posts up to "if archived": it returns 0 when nothing is old.
ArchiveOldPostsLoad(w) ==
    /\ Loaded(w, "archive_old_posts")
    /\ LET d == LoadStore(file)
           old == ArchivedPosts(d.history, op[w].cutoff)
       IN  IF old = <<>>
           THEN Finish(w, [kind |-> "count", value |-> 0]) /\ moved' = moved
           ELSE /\ Continue(w, "archive",
                            [d EXCEPT !.history = KeptPosts(d.history, op[w].cutoff)])
                /\ moved' = [moved EXCEPT ![w] = old]
    /\ UNCHANGED <<file, archive, lock, calls, seenRules, requested, dash, runVars, callVars>>

\* The write of the archive file, in a try block: a failure is logged and
\* the operation goes on.
ArchiveWrite(w) ==
    /\ pc[w] = "archive"
    /\ \E written \in BOOLEAN :
          /\ archive' = IF written THEN archive \o moved[w] ELSE archive
          /\ log' = IF written THEN log ELSE log \cup {"archive failed"}
    /\ pc' = [pc EXCEPT ![w] = "save"]
    /\ UNCHANGED <<file, lock, op, data, moved, result, calls, seenRules, requested, dash, runVars, callVars>>

\* _save: take the lock, open(path, "w") empties the file ...
SaveOpen(w) ==
    /\ pc[w] = "save"
    /\ CanAcquire(w)
    /\ lock' = Acquired(w)
    /\ file' = PartialFile
    /\ pc' = [pc EXCEPT ![w] = "dump"]
    /\ UNCHANGED <<archive, op, data, moved, result, calls, seenRules, log, requested, dash, runVars, callVars>>

\* ... json.dump writes the dict, the file is closed and the lock released.
\* An operation without "with self.lock" returns here.
SaveDump(w) ==
    /\ pc[w] = "dump"
    /\ file' = JsonFile(data[w])
    /\ seenRules' = data[w].rules
    /\ lock' = Released(w)
    /\ IF UsesLock(op[w].name)
       THEN Continue(w, "unlock", data[w]) /\ moved' = moved
       ELSE /\ Finish(w, IF op[w].name = "archive_old_posts"
                         THEN [kind |-> "count", value |-> Len(moved[w])]
                         ELSE IF op[w].name = "__init__"
                         THEN [kind |-> "memory", value |-> "seeded"]
                         ELSE NoResult)
            /\ moved' = [moved EXCEPT ![w] = <<>>]
    /\ UNCHANGED <<archive, calls, log, requested, dash, runVars, callVars>>

\* Leaving "with self.lock": the operation returns.
Unlock(w) ==
    /\ pc[w] = "unlock"
    /\ lock' = Released(w)
    /\ Finish(w, NoResult)
    /\ UNCHANGED <<file, archive, moved, calls, seenRules, log, requested, dash, runVars, callVars>>

\* The read-only queries: one _load each.
GetRules(w) ==
    /\ pc[w] = "idle"
    /\ LoadGuard(w)
    /\ log' = log \cup LoadLog(file)
    /\ result' = [result EXCEPT ![w] = [kind |-> "rules", value |-> LoadStore(file).rules]]
    /\ UNCHANGED <<file, archive, lock, pc, op, data, moved, calls, seenRules, requested, dash, runVars, callVars>>

GetPerformanceInsights(w) ==
    /\ pc[w] = "idle"
    /\ LoadGuard(w)
    /\ log' = log \cup LoadLog(file)
    /\ result' = [result EXCEPT ![w] =
                    [kind |-> "insights", value |-> Insights(LoadStore(file))]]
    /\ UNCHANGED <<file, archive, lock, pc, op, data, moved, calls, seenRules, requested, dash, runVars, callVars>>

\* dashboard.load_memory: open and json.load with no lock; only
\* FileNotFoundError is caught.
DashboardLoadMemory ==
    /\ dash' = IF file.kind = "json" THEN "loaded"
               ELSE IF file.kind = "absent" THEN "default"
               ELSE "JSONDecodeError"
    /\ UNCHANGED <<file, archive, lock, pc, op, data, moved, result, calls, seenRules, log, requested, runVars, callVars>>

\* ------------------------------------------- Orchestrator.run_workflow

\* What Agent.run returns: None on failure, or the stripped response text,
\* which may be empty.
AgentOutputs == {None, "", "text"}
\* Python truth of an Optional[str] / Optional[bytes].
Truthy(x) == x \notin {None, ""}

NotRun == "not run"
ConfigTopics == {"X", "Y"}
UnknownVibe == "Nobody"
Images == {None, "img"}
PostedUrn == "urn:1"

\* VIBES[name]["is_organic"].
IsOrganic(vibe) == vibe = "The Storyteller"

\* A critic feedback line: whether it starts with "RULE:" and the text after
\* the marker.
RuleLine(text) == [marker |-> TRUE, text |-> text]
PassLine == [marker |-> FALSE, text |-> "PASS"]
FeedbackLines ==
    {<<PassLine>>,
     <<RuleLine(OwnRule("w1", 0)), PassLine, RuleLine(OwnRule("w2", 0))>>,
     <<RuleLine(OwnRule("w1", 0)), RuleLine(OwnRule("w1", 0))>>}

\* Critic.run: add_rule for each marked line, in line order.
RECURSIVE AddRules(_, _)
AddRules(d, lines) ==
    IF lines = <<>> THEN d
    ELSE AddRules(IF Head(lines).marker THEN WithRule(d, Head(lines).text) ELSE d,
                  Tail(lines))
CriticStoreUnchanged(d, feedback, lines) == d
CriticStore(d, feedback, lines) == IF Truthy(feedback) THEN AddRules(d, lines) ELSE d

\* The order of the steps of run_workflow and its phases.
AfterPublishFirst(stage) ==
    CASE stage = "select" -> "research"
      [] stage = "research" -> "networking"
      [] stage = "networking" -> "strategize"
      [] stage = "strategize" -> "draft_text"
      [] stage = "draft_text" -> "draft_visual"
      [] stage = "draft_visual" -> "image"
      [] stage = "image" -> "publish"
      [] stage = "publish" -> "review"
      [] stage = "review" -> "record"
      [] OTHER -> "done"
After(stage) ==
    CASE stage = "select" -> "research"
      [] stage = "research" -> "networking"
      [] stage = "networking" -> "strategize"
      [] stage = "strategize" -> "draft_text"
      [] stage = "draft_text" -> "draft_visual"
      [] stage = "draft_visual" -> "image"
      [] stage = "image" -> "review"
      [] stage = "review" -> "publish"
      [] stage = "publish" -> "record"
      [] OTHER -> "done"

\* "if not trend_brief", "if not strategy", "if not draft_text": return None.
ResearchAborts(trend_brief) == ~Truthy(trend_brief)
StrategyAborts(strategy) == ~Truthy(strategy)
ContentAbortsNever(draft_text) == FALSE
ContentAborts(draft_text) == ~Truthy(draft_text)

\* "if post_urn": add_post_history.
RecordsAlways(post_urn) == TRUE
Records(post_urn) == Truthy(post_urn)

\* Ghostwriter.run: the input it passes to Agent.run is its own input
\* followed, when get_rules gives any rule, by the feedback header and the
\* rules as "- rule" lines in stored order.
NoGhostInput == [input |-> NotRun, header |-> FALSE, rules |-> <<>>]
GhostwriterInputLastRule(input_data, rules) ==
    [input |-> input_data, header |-> rules # <<>>,
     rules |-> IF rules = <<>> THEN <<>> ELSE <<rules[Len(rules)]>>]
GhostwriterInput(input_data, rules) ==
    [input |-> input_data, header |-> rules # <<>>, rules |-> rules]

\* The runs explored one after another on the same store.
MaxRuns == 2

RunStart ==
    [stage |-> "select", topic |-> NotRun, vibe |-> NotRun, insights |-> NotRun,
     brief |-> NotRun, pack |-> NotRun, strategy |-> NotRun, draft |-> NotRun,
     visual |-> NotRun, image |-> NotRun, sourced |-> FALSE, generated |-> FALSE,
     feedback |-> NotRun, lines |-> <<>>, posted |-> NotRun, publish |-> NotRun, urn |-> NotRun,
     ret |-> NotRun, exc |-> None,
     generation |-> NotRun, organic |-> NotRun, synthetic |-> NotRun,
     ghost |-> NoGhostInput, learned |-> {}, earlier |-> {}, number |-> 1]

\* The run enters stage `name` and goes on as record r.
Enter(name, r) ==
    /\ trace' = Append(trace, name)
    /\ run' = r
Abort(r) == [r EXCEPT !.stage = "done", !.ret = None]
Goes(r) == [r EXCEPT !.stage = After(run.stage)]

\* The run writes the store: a complete _load, change, _save of one process.
Writes(d) ==
    /\ file' = JsonFile(d)
    /\ seenRules' = d.rules

\* Step 0-2: get_performance_insights, then _select_vibe_and_format:
\* FORCED_VIBE when it names a vibe, else a random choice among all vibes or
\* among the enabled_personas list; VIBES[vibe_name] raises KeyError for a
\* name that is no vibe, random.choice raises IndexError on an empty list.
ForcedVibes == {None, "The Storyteller", UnknownVibe}
EnabledPersonas ==
    {[all |-> TRUE, names |-> {}], [all |-> FALSE, names |-> {"The Contrarian"}],
     [all |-> FALSE, names |-> {UnknownVibe}], [all |-> FALSE, names |-> {}]}
VibeChoicesAnyForced(forced, enabled) ==
    IF Truthy(forced) THEN {forced}
    ELSE IF enabled.all THEN VibeNames ELSE enabled.names
VibeChoices(forced, enabled) ==
    IF Truthy(forced) /\ forced \in VibeNames THEN {forced}
    ELSE IF enabled.all THEN VibeNames ELSE enabled.names

SelectStyle(forced, enabled) ==
    /\ run.stage = "select"
    /\ LET r == [run EXCEPT !.insights = Insights(LoadStore(file))] IN
       IF VibeChoices(forced, enabled) = {}
       THEN Enter("SelectStyle", [r EXCEPT !.stage = "done", !.exc = "IndexError"])
       ELSE \E v \in VibeChoices(forced, enabled) :
               IF v \in VibeNames
               THEN Enter("SelectStyle", [Goes(r) EXCEPT !.vibe = v])
               ELSE Enter("SelectStyle", [r EXCEPT !.stage = "done", !.exc = "KeyError"])
    /\ UNCHANGED <<file, seenRules, workerVars, callVars, net, before>>

\* _research_phase up to the research result.
Research(initial_topic, out) ==
    /\ run.stage = "research"
    /\ \E t \in IF Truthy(initial_topic) THEN {initial_topic} ELSE ConfigTopics :
          LET r == [run EXCEPT !.topic = t, !.brief = out] IN
          Enter("Research", IF ResearchAborts(out) THEN Abort(r) ELSE Goes(r))
    /\ UNCHANGED <<file, seenRules, workerVars, callVars, net, before>>

\* The comment pack: saved when the Networker returned one ("if comment_pack").
SavesPackAlways(comment_pack) == TRUE
SavesPack(comment_pack) == Truthy(comment_pack)
Networking(out) ==
    /\ run.stage = "networking"
    /\ Enter("Networking", [Goes(run) EXCEPT !.pack = out])
    /\ IF SavesPack(out)
       THEN Writes(WithPack(LoadStore(file), out, "manual"))
       ELSE UNCHANGED <<file, seenRules>>
    /\ UNCHANGED <<workerVars, callVars, net, before>>

Strategize(out) ==
    /\ run.stage = "strategize"
    /\ LET r == [run EXCEPT !.strategy = out] IN
       Enter("Strategize", IF StrategyAborts(out) THEN Abort(r) ELSE Goes(r))
    /\ UNCHANGED <<file, seenRules, workerVars, callVars, net, before>>

\* _content_phase: the Ghostwriter, then the ArtDirector, then the check of
\* the draft text.
DraftText(out) ==
    /\ run.stage = "draft_text"
    /\ Enter("DraftText",
             [Goes(run) EXCEPT !.draft = out,
                               !.ghost = GhostwriterInput(run.strategy, LoadStore(file).rules)])
    /\ UNCHANGED <<file, seenRules, workerVars, callVars, net, before>>

DraftVisual(out) ==
    /\ run.stage = "draft_visual"
    /\ LET r == [run EXCEPT !.visual = out] IN
       Enter("DraftVisual", IF ContentAborts(run.draft) THEN Abort(r) ELSE Goes(r))
    /\ UNCHANGED <<file, seenRules, workerVars, callVars, net, before>>

\* _visual_phase: a real photograph for an organic vibe when the feature is
\* on and the preference (or the coin, for "hybrid") says so; a generated
\* image when there is none yet and generation is on.
ImagePrefs == {"always_real", "hybrid", "always_ai"}
UseOrganicAnyVibe(vibe, organicOn, pref, coin) ==
    organicOn /\ (pref = "always_real" \/ (pref = "hybrid" /\ coin))
UseOrganic(vibe, organicOn, pref, coin) ==
    IsOrganic(vibe) /\ organicOn /\ (pref = "always_real" \/ (pref = "hybrid" /\ coin))
\* "if not image_data and ...get('enable_image_generation')"
GeneratesUnlessOrganic(use_organic, image_data, generationOn) == ~use_organic /\ generationOn
Generates(use_organic, image_data, generationOn) == ~Truthy(image_data) /\ generationOn

SourceOrGenerateImage(organicOn, generationOn, pref, coin, found, generated) ==
    /\ run.stage = "image"
    /\ LET organic == UseOrganic(run.vibe, organicOn, pref, coin)
           first == IF organic THEN found ELSE None
           generate == Generates(organic, first, generationOn)
       IN  Enter("Image", [Goes(run) EXCEPT !.image = IF generate THEN generated ELSE first,
                                             !.sourced = organic,
                                             !.generated = generate,
                                             !.generation = IF generationOn THEN "on" ELSE "off",
                                             !.organic = IF organic THEN found ELSE NotRun,
                                             !.synthetic = IF generate THEN generated ELSE NotRun])
    /\ UNCHANGED <<file, seenRules, workerVars, callVars, net, before>>

\* _publish_phase, the review: Critic.run adds the rules of its feedback.
Review(feedback, lines) ==
    /\ run.stage = "review"
    /\ Enter("Review",
             [Goes(run) EXCEPT !.feedback = feedback, !.lines = lines,
                               !.learned = Range(CriticStore(LoadStore(file), feedback, lines).rules)
                                              \ Range(LoadStore(file).rules)])
    /\ Writes(CriticStore(LoadStore(file), feedback, lines))
    /\ UNCHANGED <<workerVars, callVars, net, before>>

\* LinkedInConnector.post_content: nothing is sent without credentials; an
\* image is registered and uploaded first, and a failure there leaves a
\* text-only post; the post request returns the new post's id, or none.
UploadOutcomes == {"uploaded", "register fails", "upload fails"}
PostOutcomes == {"accepted", "accepted without id", "request failed"}
UploadRequests(image, upload) ==
    IF ~Truthy(image) THEN <<>>
    ELSE IF upload = "register fails" THEN <<"register_upload">>
    ELSE <<"register_upload", "upload_image">>
PostRequest(image, upload) ==
    IF Truthy(image) /\ upload = "uploaded" THEN "post with image" ELSE "post text only"
PostContentRequests(credentials, image, upload) ==
    IF ~credentials THEN <<>>
    ELSE Append(UploadRequests(image, upload), PostRequest(image, upload))
PostContentUrn(credentials, post) ==
    IF credentials /\ post = "accepted" THEN PostedUrn ELSE None

Publish(credentials, upload, post) ==
    /\ run.stage = "publish"
    /\ Enter("Publish",
             [Goes(run) EXCEPT !.posted = run.draft,
                               !.publish = IF credentials THEN post ELSE "no credentials",
                               !.urn = PostContentUrn(credentials, post)])
    /\ net' = net \o PostContentRequests(credentials, run.image, upload)
    /\ UNCHANGED <<file, seenRules, workerVars, callVars, before>>

\* "if post_urn: add_post_history", and run_workflow returns the urn.
RecordHistory ==
    /\ run.stage = "record"
    /\ run' = [Goes(run) EXCEPT !.ret = run.urn]
    /\ IF Records(run.urn)
       THEN /\ trace' = Append(trace, "RecordHistory")
            /\ Writes(WithPost(LoadStore(file), run.topic, run.vibe, run.urn))
       ELSE UNCHANGED <<trace, file, seenRules>>
    /\ UNCHANGED <<workerVars, callVars, net, before>>

NextRun ==
    \/ \E forced \in ForcedVibes, enabled \in EnabledPersonas : SelectStyle(forced, enabled)
    \/ \E topic \in {None, "X"}, out \in AgentOutputs : Research(topic, out)
    \/ \E out \in {None, ""} \cup Packs : Networking(out)
    \/ \E out \in AgentOutputs : Strategize(out)
    \/ \E out \in AgentOutputs : DraftText(out)
    \/ \E out \in AgentOutputs : DraftVisual(out)
    \/ \E organicOn, generationOn, coin \in BOOLEAN, pref \in ImagePrefs,
          found, generated \in Images :
          SourceOrGenerateImage(organicOn, generationOn, pref, coin, found, generated)
    \/ \E feedback \in AgentOutputs :
          \E lines \in IF Truthy(feedback) THEN FeedbackLines ELSE {<<>>} :
             Review(feedback, lines)
    \/ \E credentials \in BOOLEAN, upload \in UploadOutcomes, post \in PostOutcomes :
          Publish(credentials, upload, post)
    \/ RecordHistory

\* A signal stops the process between two statements of the run: the
\* KeyboardInterrupt handler of __main__ logs it and the process exits.
Interrupt ==
    /\ run.stage # "done"
    /\ Enter("Interrupted", [run EXCEPT !.stage = "done", !.exc = "KeyboardInterrupt"])
    /\ UNCHANGED <<file, seenRules, workerVars, callVars, net, before>>

\* A signal stops the process inside _save, after open(path, "w") has
\* emptied the file and before json.dump has written the dict: in
\* save_comment_pack of the networking step or in add_rule of the review.
InterruptedSave ==
    /\ run.stage \in {"networking", "review"}
    /\ Enter("Interrupted", [run EXCEPT !.stage = "done", !.exc = "KeyboardInterrupt"])
    /\ file' = PartialFile
    /\ UNCHANGED <<seenRules, workerVars, callVars, net, before>>

NextInterrupt ==
    \/ NextRun
    \/ Interrupt
    \/ InterruptedSave

\* The next scheduled run of the workflow: a new process on the store the
\* earlier runs left.
StartNextRun ==
    /\ run.stage = "done"
    /\ run.number < MaxRuns
    /\ run' = [RunStart EXCEPT !.number = run.number + 1,
                               !.earlier = run.earlier \cup run.learned]
    /\ trace' = <<>>
    /\ net' = <<>>
    /\ before' = LoadStore(file)
    /\ UNCHANGED <<file, seenRules, workerVars, callVars>>

\* Runs one after another, with every outcome of the stages that read or
\* write the store and one configuration of style and image.
NextRuns ==
    \/ SelectStyle(None, [all |-> TRUE, names |-> {}])
    \/ \E out \in AgentOutputs : Research("X", out)
    \/ \E out \in {None} \cup Packs : Networking(out)
    \/ \E out \in AgentOutputs : Strategize(out)
    \/ \E out \in AgentOutputs : DraftText(out)
    \/ \E out \in {None, "text"} : DraftVisual(out)
    \/ \E generated \in Images :
          SourceOrGenerateImage(FALSE, TRUE, "always_ai", FALSE, None, generated)
    \/ \E feedback \in AgentOutputs :
          \E lines \in IF Truthy(feedback) THEN FeedbackLines ELSE {<<>>} :
             Review(feedback, lines)
    \/ \E credentials \in BOOLEAN, post \in PostOutcomes : Publish(credentials, "uploaded", post)
    \/ RecordHistory
    \/ StartNextRun

\* ------------------------------------------------------------- Agent.run

\* CONFIG["model"]: the default max_retries and base_delay_seconds.
DefaultMaxRetries == 3
BaseDelaySeconds == 5
\* The largest configured max_retries explored.
MaxRetriesConfigured == 3

\* os.environ.get("GEMINI_API_KEY"): unset, set to the empty string, or set.
ApiKeys == {None, "", "key"}
AgentNames == {"Strategist", "Critic"}
AgentInputs == {"in1", "in2"}

\* What one generate_content call does: it returns text (empty after strip,
\* or not), or raises requests.exceptions.Timeout, an error whose message
\* has "429" or "Resource exhausted", or any other error.
GenerateOutcomes == {"text", "empty text", "timeout", "rate limit", "error"}

\* A returned value: None, or a string as the sequence of its parts.
ReturnsNone == [kind |-> "None", value |-> <<>>]
ReturnsStr(parts) == [kind |-> "str", value |-> parts]
IsUsable(ret) == ret.kind = "str" /\ ret.value # <<>>

\* f"[{self.name} Output based on '{input_data}']"
Placeholder(name, input) == ReturnsStr(<<"[", name, " Output based on '", input, "']">>)

\* "if not api_key"
MissingKeyUnset(api_key) == api_key = None
MissingKey(api_key) == ~Truthy(api_key)

\* "for attempt in range(max_retries)"
InRangeInclusive(attempt, max_retries) == attempt <= max_retries
InRange(attempt, max_retries) == attempt < max_retries

\* "'429' in error_str or 'Resource exhausted' in error_str"
RateLimited(outcome) == outcome = "rate limit"
\* The errors with a branch that sleeps and continues: Timeout has its own
\* except clause, before the rate-limit test.
RetriedAlways(outcome) == outcome \notin {"text", "empty text"}
Retried(outcome) == outcome = "timeout" \/ RateLimited(outcome)
\* "if attempt < max_retries - 1"
HasAttemptLeft(attempt, max_retries) == attempt + 1 < max_retries

\* base_delay_seconds of the configuration: the default, or the smallest
\* whole number of seconds.
BaseDelays == {1, BaseDelaySeconds}
\* random.uniform(0, 1): its two ends.
Jitters == {0, 1}
\* base_delay * (2 ** attempt) + random.uniform(0, 1)
WaitTimeFixed(base_delay, attempt, jitter) == base_delay + jitter
WaitTime(base_delay, attempt, jitter) == base_delay * (2 ^ attempt) + jitter

AgentIdle ==
    [pc |-> "idle", api_key |-> None, name |-> "", input |-> "", max_retries |-> 0,
     base_delay |-> 0, attempt |-> 0, outcomes |-> <<>>, waits |-> <<>>, ret |-> ReturnsNone]

AgentReturns(a, ret) == [a EXCEPT !.pc = "returned", !.ret = ret]

\* The call, up to the first pass of the loop: the placeholder without a key,
\* None when the loop has no pass.
AgentRunBegin(api_key, name, input, max_retries) ==
    /\ agent.pc = "idle"
    /\ \E base_delay \in BaseDelays :
       LET a == [agent EXCEPT !.api_key = api_key, !.name = name, !.input = input,
                              !.max_retries = max_retries,
                              !.base_delay = IF MissingKey(api_key) THEN 0 ELSE base_delay]
       IN  agent' = IF MissingKey(api_key) THEN AgentReturns(a, Placeholder(name, input))
                    ELSE IF InRange(0, max_retries) THEN [a EXCEPT !.pc = "generate"]
                    ELSE AgentReturns(a, ReturnsNone)
    /\ UNCHANGED <<file, seenRules, workerVars, runVars, critic, research>>

\* One pass of the loop body: generate_content and the except clauses.
AgentRunGenerate(outcome) ==
    /\ agent.pc = "generate"
    /\ LET a == [agent EXCEPT !.outcomes = Append(@, outcome)]
       IN  agent' = IF outcome = "text" THEN AgentReturns(a, ReturnsStr(<<"text">>))
                    ELSE IF outcome = "empty text" THEN AgentReturns(a, ReturnsStr(<<>>))
                    ELSE IF Retried(outcome) /\ HasAttemptLeft(agent.attempt, agent.max_retries)
                         THEN [a EXCEPT !.pc = "sleep"]
                    ELSE AgentReturns(a, ReturnsNone)
    /\ UNCHANGED <<file, seenRules, workerVars, runVars, critic, research>>

\* time.sleep(base_delay * (2 ** attempt) + jitter), then "continue": the
\* next pass, or the end of the loop and the implicit return None.
AgentRunSleep ==
    /\ agent.pc = "sleep"
    /\ \E jitter \in Jitters :
       LET a == [agent EXCEPT !.waits = Append(@, WaitTime(agent.base_delay, agent.attempt, jitter)),
                              !.attempt = @ + 1]
       IN  agent' = IF InRange(a.attempt, a.max_retries) THEN [a EXCEPT !.pc = "generate"]
                    ELSE AgentReturns(a, ReturnsNone)
    /\ UNCHANGED <<file, seenRules, workerVars, runVars, critic, research>>

NextAgent ==
    \/ \E api_key \in ApiKeys, name \in AgentNames, input \in AgentInputs,
          max_retries \in 0 .. MaxRetriesConfigured :
          AgentRunBegin(api_key, name, input, max_retries)
    \/ \E outcome \in GenerateOutcomes : AgentRunGenerate(outcome)
    \/ AgentRunSleep

\* ------------------------------------------------------------ Critic.run

\* The longest feedback line explored, in parts.
MaxLineLen == 3

\* A feedback line as the sequence of its parts: the marker "RULE:", white
\* space, other text.
Marker == "RULE:"
LineParts == {Marker, " ", "a"}
CriticLines == UNION {[1 .. n -> LineParts] : n \in 0 .. MaxLineLen}

\* str.strip()
RECURSIVE LStrip(_)
LStrip(line) == IF line # <<>> /\ Head(line) = " " THEN LStrip(Tail(line)) ELSE line
RECURSIVE RStrip(_)
RStrip(line) ==
    IF line # <<>> /\ line[Len(line)] = " "
    THEN RStrip(SubSeq(line, 1, Len(line) - 1)) ELSE line
Strip(line) == RStrip(LStrip(line))

\* What super().run returns to the critic: None, or text that Agent.run has
\* stripped, as the list feedback.split('\n') of its lines; the empty text
\* splits into one empty line.
NoFeedback == [kind |-> "None", lines |-> <<>>]
EmptyFeedback == [kind |-> "str", lines |-> << <<>> >>]
IsStripped(lines) == Head(lines) = LStrip(Head(lines)) /\ lines[Len(lines)] = RStrip(lines[Len(lines)])
FeedbackTexts ==
    {lines \in {<<l>> : l \in CriticLines} \cup {<<l1, l2>> : l1, l2 \in CriticLines} :
        IsStripped(lines)}
CriticFeedbacks == {NoFeedback} \cup {[kind |-> "str", lines |-> lines] : lines \in FeedbackTexts}

\* "if not feedback"
CriticStopsOnNone(feedback) == feedback.kind = "None"
CriticStops(feedback) == feedback.kind = "None" \/ feedback = EmptyFeedback

\* line.strip().startswith("RULE:")
HasMarker(line) == Strip(line) # <<>> /\ Head(Strip(line)) = Marker
\* line.strip().replace("RULE:", "").strip()
Replace(line) == LET Other(part) == part # Marker IN SelectSeq(line, Other)
NewRule(line) == Strip(Replace(Strip(line)))

\* The arguments of the add_rule calls of the loop over the lines, in order.
RECURSIVE CriticRules(_)
CriticRules(lines) ==
    IF lines = <<>> THEN <<>>
    ELSE (IF HasMarker(Head(lines)) THEN <<NewRule(Head(lines))>> ELSE <<>>)
            \o CriticRules(Tail(lines))

\* The store after add_rule for each of the rules.
RECURSIVE AddEach(_, _)
AddEach(d, rules) ==
    IF rules = <<>> THEN d ELSE AddEach(WithRule(d, Head(rules)), Tail(rules))

CriticIdle ==
    [pc |-> "idle", feedback |-> NoFeedback, added |-> <<>>, ret |-> ReturnsNone,
     before |-> EmptyStore]

\* Critic.run, given what the generation call returned.
CriticRun(feedback) ==
    /\ critic.pc = "idle"
    /\ LET c == [critic EXCEPT !.pc = "returned", !.feedback = feedback,
                               !.before = LoadStore(file)]
       IN  IF CriticStops(feedback)
           THEN /\ critic' = [c EXCEPT !.ret = ReturnsNone]
                /\ UNCHANGED <<file, seenRules>>
           ELSE /\ critic' = [c EXCEPT !.added = CriticRules(feedback.lines),
                                       !.ret = ReturnsStr(feedback.lines)]
                /\ Writes(AddEach(LoadStore(file), CriticRules(feedback.lines)))
    /\ UNCHANGED <<workerVars, runVars, agent, research>>

NextCritic == \E feedback \in CriticFeedbacks : CriticRun(feedback)

\* ---------------------------------------------------- ResearchManager.run

\* The four sources, in the order of their sections in full_input.
Sources == <<"hackernews", "newsapi", "arxiv", "tavily">>
SourceNames == Range(Sources)

\* What a fetch task can do once it ends: the connector returns content; it
\* catches a request error and returns its error text; it has no API key and
\* returns the empty text; the task raises before the connector's try block.
FetchOutcomes(source) ==
    {"content", "error"}
        \cup (IF source \in {"newsapi", "tavily"} THEN {"no key"} ELSE {})
        \cup (IF source = "hackernews" THEN {"raises"} ELSE {})

Content(source) == [kind |-> "content", source |-> source]
ErrorText(source) == [kind |-> "error text", source |-> source]
EmptyText(source) == [kind |-> "empty", source |-> source]
Unavailable(source) == [kind |-> "unavailable", source |-> source]
NoData(source) == [kind |-> "no entry", source |-> source]

\* The text in the tuple a fetch task returns.
Returned(source, outcome) ==
    IF outcome = "content" THEN Content(source)
    ELSE IF outcome = "no key" THEN EmptyText(source)
    ELSE ErrorText(source)

\* results.get(source, "<source> data unavailable.")
ResultsGetNoDefault(results, source) == results[source]
ResultsGet(results, source) ==
    IF results[source] = NoData(source) THEN Unavailable(source) ELSE results[source]

\* The sections of full_input after input_data.
FullInputInCompletionOrder(results, keys) ==
    [i \in 1 .. Len(keys) |-> [section |-> keys[i], data |-> ResultsGet(results, keys[i])]]
FullInput(results, keys) ==
    [i \in 1 .. Len(Sources) |-> [section |-> Sources[i], data |-> ResultsGet(results, Sources[i])]]

ResearchIdle ==
    [pc |-> "idle",
     task |-> [s \in SourceNames |-> "not submitted"],
     outcome |-> [s \in SourceNames |-> "none"],
     results |-> [s \in SourceNames |-> NoData(s)],
     keys |-> <<>>,
     warned |-> {},
     full_input |-> <<>>,
     ret |-> NotRun]

\* executor.submit for the four tasks.
ResearchRunBegin ==
    /\ research.pc = "idle"
    /\ research' = [research EXCEPT !.pc = "as_completed",
                                    !.task = [s \in SourceNames |-> "running"]]
    /\ UNCHANGED <<file, seenRules, workerVars, runVars, agent, critic>>

\* A fetch task ends, in its worker thread.
FetchEnds(source, outcome) ==
    /\ research.pc = "as_completed"
    /\ research.task[source] = "running"
    /\ research' = [research EXCEPT !.task[source] = "done", !.outcome[source] = outcome]
    /\ UNCHANGED <<file, seenRules, workerVars, runVars, agent, critic>>

\* One pass of "for future in as_completed(futures)": a finished future is
\* handed over, and its result is stored or its exception logged.
Collect(source) ==
    /\ research.pc = "as_completed"
    /\ research.task[source] = "done"
    /\ research' =
        IF research.outcome[source] = "raises"
        THEN [research EXCEPT !.task[source] = "collected", !.warned = @ \cup {source}]
        ELSE [research EXCEPT !.task[source] = "collected",
                              !.results[source] = Returned(source, research.outcome[source]),
                              !.keys = Append(@, source)]
    /\ UNCHANGED <<file, seenRules, workerVars, runVars, agent, critic>>

\* as_completed is exhausted once every future has finished; the executor
\* shuts down and full_input is built.
Merge ==
    /\ research.pc = "as_completed"
    /\ \A s \in SourceNames : research.task[s] = "collected"
    /\ research' = [research EXCEPT !.pc = "synthesis",
                                    !.full_input = FullInput(research.results, research.keys)]
    /\ UNCHANGED <<file, seenRules, workerVars, runVars, agent, critic>>

\* return super().run(full_input)
Synthesize(output) ==
    /\ research.pc = "synthesis"
    /\ research' = [research EXCEPT !.pc = "returned", !.ret = output]
    /\ UNCHANGED <<file, seenRules, workerVars, runVars, agent, critic>>

\* The steps of the thread that called ResearchManager.run.
ResearchSteps ==
    \/ ResearchRunBegin
    \/ \E source \in SourceNames : Collect(source)
    \/ Merge
    \/ \E output \in AgentOutputs : Synthesize(output)

\* The end of a request that carries a timeout.
TimedFetchEnds == \E outcome \in FetchOutcomes("newsapi") : FetchEnds("newsapi", outcome)

NextResearch ==
    \/ ResearchSteps
    \/ \E source \in SourceNames : \E outcome \in FetchOutcomes(source) : FetchEnds(source, outcome)

\* ------------------------------------------------------- the specification

\* The store file exists (Memory.__init__ seeds it when absent); it may
\* carry a record of an older deployment whose date is a millisecond count.
InitStores == {EmptyStore, [EmptyStore EXCEPT !.history = <<LegacyRecord>>]}

\* Everything but the store file.
InitOther ==
    /\ archive = <<>>
    /\ lock = [owner |-> NoOwner, count |-> 0]
    /\ pc = [w \in Workers |-> "idle"]
    /\ op = [w \in Workers |-> NoOp]
    /\ data = [w \in Workers |-> EmptyStore]
    /\ moved = [w \in Workers |-> <<>>]
    /\ result = [w \in Workers |-> NoResult]
    /\ calls = [w \in Workers |-> 0]
    /\ log = {}
    /\ requested = [r \in RuleTexts |-> 0]
    /\ dash = "not run"
    /\ run = RunStart
    /\ trace = <<>>
    /\ net = <<>>
    /\ before = LoadStore(file)
    /\ agent = AgentIdle
    /\ critic = CriticIdle
    /\ research = ResearchIdle

InitStore ==
    /\ \E s \in InitStores : file = JsonFile(s) /\ seenRules = s.rules
    /\ InitOther

\* The path has no file, or a file that is not valid JSON: the text of a
\* store with a rule and a record, damaged.
DamagedStore == [EmptyStore EXCEPT !.rules = <<OwnRule("w1", 0)>>, !.history = <<LegacyRecord>>]
InitDamaged ==
    /\ file \in {AbsentFile, CorruptFile(DamagedStore)}
    /\ seenRules = <<>>
    /\ InitOther

\* The steps of add_rule, with the query that may run beside it.
AddRuleSteps(w) ==
    \/ AddRuleLoad(w)
    \/ SaveOpen(w)
    \/ SaveDump(w)
    \/ Unlock(w)
    \/ GetRules(w)

NextStore ==
    \/ DashboardLoadMemory
    \/ \E w \in Workers :
        \/ Budget /\ \E rule \in SharedRules : AddRuleBegin(w, rule)
        \/ Budget /\ \E topic \in Topics : AddPostHistoryBegin(w, topic, "The Contrarian", PostedUrn)
        \/ Budget /\ \E urn \in Urns : UpdatePostStatsBegin(w, urn, 1, 1)
        \/ Budget /\ \E pack \in Packs : SaveCommentPackBegin(w, pack)
        \/ Budget /\ \E cutoff \in Cutoffs : ArchiveOldPostsBegin(w, cutoff)
        \/ AddRuleSteps(w)
        \/ AddPostHistoryLoad(w)
        \/ UpdatePostStatsLoad(w)
        \/ SaveCommentPackLoad(w)
        \/ ArchiveOldPostsLoad(w)
        \/ ArchiveWrite(w)
        \/ GetPerformanceInsights(w)

\* Only add_rule, with any rule text, and get_rules.
NextAddRule ==
    \E w \in Workers :
        \/ \E rule \in RuleTexts : AddRuleBegin(w, rule)
        \/ AddRuleSteps(w)

\* Memory objects are made and used, one call at a time.
NextOpen ==
    \E w \in Workers :
        /\ \A v \in Workers \ {w} : pc[v] = "idle"
        /\ \/ Budget /\ MemoryInit(w)
           \/ Budget /\ \E rule \in SharedRules : AddRuleBegin(w, rule)
           \/ Budget /\ \E topic \in Topics : AddPostHistoryBegin(w, topic, "The Contrarian", PostedUrn)
           \/ Budget /\ \E urn \in Urns : UpdatePostStatsBegin(w, urn, 1, 1)
           \/ Budget /\ \E pack \in Packs : SaveCommentPackBegin(w, pack)
           \/ Budget /\ \E cutoff \in Cutoffs : ArchiveOldPostsBegin(w, cutoff)
           \/ AddRuleSteps(w)
           \/ AddPostHistoryLoad(w)
           \/ UpdatePostStatsLoad(w)
           \/ SaveCommentPackLoad(w)
           \/ ArchiveOldPostsLoad(w)
           \/ ArchiveWrite(w)
           \/ GetPerformanceInsights(w)

\* Stores for get_performance_insights: histories of up to MaxHistory
\* records, the i-th of variant "A", "B", "C" in turn, with any of the like
\* counts.
MaxHistory == 3
LikeCounts == {0, 3, 10, 25}
InsightVibe(i) == <<"A", "B", "C">>[((i - 1) % 3) + 1]
InsightRecord(i, likes) ==
    [date |-> IsoDate, topic |-> "X", vibe |-> InsightVibe(i), urn |-> "urn:1",
     stats |-> [likes |-> likes, comments |-> 0]]
InsightHistories ==
    UNION {{[i \in 1 .. n |-> InsightRecord(i, likes[i])] : likes \in [1 .. n -> LikeCounts]} :
              n \in 0 .. MaxHistory}
InitInsights ==
    /\ file \in {JsonFile([EmptyStore EXCEPT !.history = h]) : h \in InsightHistories}
    /\ seenRules = <<>>
    /\ InitOther
NextInsights == \E w \in Workers : GetPerformanceInsights(w)

NextSelect ==
    \/ NextRuns
    \/ \E forced \in ForcedVibes, enabled \in EnabledPersonas : SelectStyle(forced, enabled)

\* The operations that hold the lock from their load to their save.
NextLocked ==
    \E w \in Workers :
        \/ Budget /\ \E rule \in SharedRules : AddRuleBegin(w, rule)
        \/ Budget /\ \E topic \in Topics : AddPostHistoryBegin(w, topic, "The Contrarian", PostedUrn)
        \/ Budget /\ \E urn \in Urns : UpdatePostStatsBegin(w, urn, 1, 1)
        \/ AddRuleLoad(w)
        \/ AddPostHistoryLoad(w)
        \/ UpdatePostStatsLoad(w)
        \/ SaveOpen(w)
        \/ SaveDump(w)
        \/ Unlock(w)

\* Processes that each make their Memory first and then add to the store,
\* all at the same time.
NextOpenRace ==
    \E w \in Workers :
        \/ Budget /\ calls[w] = 0 /\ MemoryInit(w)
        \/ Budget /\ calls[w] > 0 /\ \E rule \in SharedRules : AddRuleBegin(w, rule)
        \/ Budget /\ calls[w] > 0
                  /\ \E topic \in Topics : AddPostHistoryBegin(w, topic, "The Contrarian", PostedUrn)
        \/ AddRuleLoad(w)
        \/ AddPostHistoryLoad(w)
        \/ SaveOpen(w)
        \/ SaveDump(w)
        \/ Unlock(w)

Init == InitStore
Next == NextStore
Spec == Init /\ [][Next]_vars
SpecAddRule == Init /\ [][NextAddRule]_vars
SpecRun == Init /\ [][NextRun]_vars
\* One Agent.run call; the thread that runs it keeps running.
SpecAgent == Init /\ [][NextAgent]_vars /\ WF_vars(NextAgent)
\* Runs of the workflow one after another.
SpecRuns == Init /\ [][NextRuns]_vars
\* The store file is missing or damaged when the first Memory is made.
SpecOpen == InitDamaged /\ [][NextOpen]_vars
\* get_performance_insights on a store with any history.
SpecInsights == InitInsights /\ [][NextInsights]_vars
\* One run that a signal may stop at any point.
SpecInterrupt == Init /\ [][NextInterrupt]_vars
\* Runs one after another, with every setting of FORCED_VIBE and
\* enabled_personas.
SpecSelect == Init /\ [][NextSelect]_vars
\* Workers calling add_rule, add_post_history and update_post_stats: a
\* worker that can take a step takes one.
SpecLocked == Init /\ [][NextLocked]_vars /\ WF_vars(NextLocked)
\* The store file is missing when several processes start.
SpecOpenRace == InitDamaged /\ [][NextOpenRace]_vars
\* One Critic.run call.
SpecCritic == Init /\ [][NextCritic]_vars
\* One ResearchManager.run call: the calling thread keeps running, and so
\* does a request that was given a timeout; a request without one may never
\* come back.
SpecResearch ==
    Init /\ [][NextResearch]_vars /\ WF_vars(ResearchSteps) /\ WF_vars(TimedFetchEnds)

\* ------------------------------------------------------------- the claims

Quiescent == \A w \in Workers : pc[w] = "idle"
Occurrences(s, x) == Cardinality({i \in 1 .. Len(s) : s[i] = x})

\* C1: workers that call add_rule with rule texts distinct across all of
\* them leave, once every call has returned, exactly the added texts in the
\* persisted rules list: as many entries as calls, each text once.
C1_ConcurrentAddRuleLosesNothing ==
    (Quiescent /\ \A r \in RuleTexts : requested[r] <= 1) =>
        /\ file.kind = "json"
        /\ Len(file.store.rules) = SumOver(requested, RuleTexts)
        /\ \A r \in RuleTexts : Occurrences(file.store.rules, r) = requested[r]

C1_Witness ==
    /\ Quiescent
    /\ \A w \in Workers : calls[w] = MaxCalls
    /\ \A r \in RuleTexts : requested[r] = 1
    /\ Len(file.store.rules) = Cardinality(Workers) * MaxCalls

\* C2: a worker that has read the store in a mutating operation and has not
\* yet finished writing it holds the lock.
C2_LockHeldFromReadToWrite ==
    \A w \in Workers : pc[w] \in {"save", "archive", "dump"} => lock.owner = w

\* C3: the store file always holds a complete serialized store.
C3_FileAlwaysComplete == file.kind = "json"

\* C4: the persisted rules list never holds the same text twice.
C4_NoDuplicateRules ==
    /\ NoDuplicates(LoadStore(file).rules)
    /\ NoDuplicates(seenRules)

C4_Witness ==
    /\ Quiescent
    /\ file.kind = "json"
    /\ \E r \in RuleTexts : requested[r] >= 2 /\ Occurrences(file.store.rules, r) = 1

\* C5: the persisted rules list only grows at its end: each complete store
\* content has the rules of the one before it as a prefix.
C5_RulesAppendOnly == [][IsPrefix(seenRules, seenRules')]_vars

ReadStep(w) == GetRules(w) \/ GetPerformanceInsights(w)

\* C6: a get_rules or get_performance_insights that runs beside other
\* workers' writes reads a complete store file, the content left by the last
\* completed save, and never takes the loader's corrupt-file branch.
C6_ReadsSeeCompleteStore ==
    [][\A w \in Workers :
          ReadStep(w) =>
              /\ file.kind = "json"
              /\ file.store.rules = seenRules
              /\ "corrupted" \notin log']_vars

C6_Witness ==
    \E w, v \in Workers :
        /\ w # v
        /\ pc[v] = "save"
        /\ op[v].name = "save_comment_pack"
        /\ data[v].rules = <<>>
        /\ result[w].kind = "rules"
        /\ result[w].value # <<>>

\* A stage that ran and returned no usable output (None or empty text).
NoOutput(x) == x \in {None, ""}
Entered(name) == name \in Range(trace)
PersistedHistory == LoadStore(file).history

\* C7: once Research, Strategize or DraftText has returned no usable output,
\* the run never publishes and writes no PostRecord: it ends, returning None,
\* with the history it started with.
C7_FatalStageFailureAborts ==
    (NoOutput(run.brief) \/ NoOutput(run.strategy) \/ NoOutput(run.draft)) =>
        /\ ~Entered("Publish")
        /\ ~Entered("RecordHistory")
        /\ net = <<>>
        /\ PersistedHistory = before.history
        /\ run.stage \in {"draft_visual", "done"}
        /\ run.stage = "done" => run.ret = None

C7_Witness ==
    /\ run.stage = "done"
    /\ ~NoOutput(run.brief)
    /\ ~NoOutput(run.strategy)
    /\ NoOutput(run.draft)
    /\ Entered("DraftVisual")

\* C8: the stages are entered in the fixed order (text draft and visual draft
\* in either order), Publish only after Research, Strategize and DraftText
\* gave output, RecordHistory only after Publish.
StageOrder ==
    <<"SelectStyle", "Research", "Networking", "Strategize", "DraftText", "DraftVisual",
      "Image", "Review", "Publish", "RecordHistory">>
StageOrderVisualFirst ==
    <<"SelectStyle", "Research", "Networking", "Strategize", "DraftVisual", "DraftText",
      "Image", "Review", "Publish", "RecordHistory">>
C8_StagesInOrder ==
    /\ IsPrefix(trace, StageOrder) \/ IsPrefix(trace, StageOrderVisualFirst)
    /\ Entered("Publish") =>
          /\ run.brief \notin {NotRun, None, ""}
          /\ run.strategy \notin {NotRun, None, ""}
          /\ run.draft \notin {NotRun, None, ""}
    /\ Entered("RecordHistory") => Entered("Publish") /\ run.publish # NotRun

C8_Witness == run.stage = "done" /\ trace = StageOrder

\* C9: when publish returns no identifier because the credentials are missing
\* or the request fails, the run ends with no PostRecord written, returning
\* None, with no exception; without credentials no request is sent at all.
C9_PublishFailureRecordsNothing ==
    (run.stage = "done" /\ run.publish \in {"no credentials", "request failed"}) =>
        /\ PersistedHistory = before.history
        /\ ~Entered("RecordHistory")
        /\ run.ret = None
        /\ run.exc = None
        /\ run.publish = "no credentials" => net = <<>>

C9_Witness ==
    /\ run.stage = "done"
    /\ run.publish = "no credentials"
    /\ run.image = "img"
    /\ Entered("Publish")

\* C10: a run whose publish returns an identifier leaves the history it found
\* followed by exactly one record with the run's topic, vibe and identifier
\* and stats likes = 0, comments = 0.
C10_SuccessfulRunRecordsOnePost ==
    (run.stage = "done" /\ run.publish = "accepted") =>
        /\ run.urn = PostedUrn
        /\ run.ret = PostedUrn
        /\ PersistedHistory =
              Append(before.history,
                     [date |-> IsoDate, topic |-> run.topic, vibe |-> run.vibe,
                      urn |-> PostedUrn, stats |-> [likes |-> 0, comments |-> 0]])

C10_Witness ==
    /\ run.stage = "done"
    /\ run.publish = "accepted"
    /\ run.topic = "X"
    /\ run.vibe \in VibeNames
    /\ \A x \in {run.brief, run.pack, run.strategy, run.draft, run.visual, run.feedback} :
          ~NoOutput(x)
    /\ run.image = "img"
    /\ Len(PersistedHistory) = Len(before.history) + 1

\* ---- Agent.run

AllRateLimited(outcomes) == \A i \in 1 .. Len(outcomes) : RateLimited(outcomes[i])

\* C11: with a capability that signals rate-limit on every call, Agent.run
\* makes exactly max_retries generation attempts (3 with the default) and
\* returns None; it never makes more than max_retries attempts, and a started
\* call always returns.
C11_RateLimitedRunStopsAfterMaxRetries ==
    /\ [](Len(agent.outcomes) <= agent.max_retries)
    /\ []((agent.pc = "returned" /\ agent.api_key = "key" /\ AllRateLimited(agent.outcomes))
            => (Len(agent.outcomes) = agent.max_retries /\ agent.ret = ReturnsNone))
    /\ ((agent.pc \in {"generate", "sleep"}) ~> (agent.pc = "returned"))
C11_Witness ==
    /\ agent.pc = "returned"
    /\ agent.max_retries = DefaultMaxRetries
    /\ agent.outcomes = <<"rate limit", "rate limit", "rate limit">>
    /\ Len(agent.waits) = 2
    /\ agent.ret = ReturnsNone

IsError(outcome) == outcome \in {"timeout", "rate limit", "error"}
\* The failing attempt i was the last step of the call.
StoppedAt(i) ==
    /\ i = Len(agent.outcomes)
    /\ agent.pc = "returned"
    /\ agent.ret = ReturnsNone
    /\ Len(agent.waits) = i - 1

\* C12 as stated: on any error that is not rate-limited, Agent.run returns
\* None at once, with no further attempt and no sleep.
C12_OtherErrorStopsAtOnce ==
    \A i \in 1 .. Len(agent.outcomes) :
        (IsError(agent.outcomes[i]) /\ ~RateLimited(agent.outcomes[i])) => StoppedAt(i)

\* C12 amended: on any error that is neither rate-limited nor a request
\* timeout, Agent.run returns None at once, with no further attempt and no
\* sleep, however many attempts remain.
C12_NonTransientErrorStopsAtOnce ==
    \A i \in 1 .. Len(agent.outcomes) :
        (IsError(agent.outcomes[i]) /\ agent.outcomes[i] \notin {"rate limit", "timeout"})
            => StoppedAt(i)
C12_Witness ==
    /\ agent.pc = "returned"
    /\ agent.max_retries = DefaultMaxRetries
    /\ agent.outcomes = <<"rate limit", "error">>
    /\ Len(agent.waits) = 1
    /\ agent.ret = ReturnsNone

\* C13: without a generation credential (the variable unset or empty)
\* Agent.run makes no generation call and no retry and returns the text
\* "[<name> Output based on '<input>']", which depends on the agent's name and
\* the input alone and is never None.
C13_NoKeyReturnsPlaceholder ==
    (agent.pc = "returned" /\ agent.api_key \in {None, ""})
        => /\ agent.outcomes = <<>>
           /\ agent.waits = <<>>
           /\ agent.ret.kind = "str"
           /\ agent.ret.value = <<"[", agent.name, " Output based on '", agent.input, "']">>
C13_Witness ==
    /\ agent.pc = "returned"
    /\ agent.api_key = ""
    /\ agent.name = "Critic"
    /\ agent.input = "in2"
    /\ agent.max_retries = DefaultMaxRetries
    /\ agent.ret = Placeholder("Critic", "in2")

\* ---- the non-fatal stages of a run

PersistedPack ==
    [pack |-> LoadStore(file).latest_comment_pack, updated |-> LoadStore(file).last_updated]
PackBefore == [pack |-> before.latest_comment_pack, updated |-> before.last_updated]
\* The run came to its end with research, strategy and text, and no exception.
CompleteRun ==
    /\ run.stage = "done"
    /\ run.exc = None
    /\ ~NoOutput(run.brief) /\ ~NoOutput(run.strategy) /\ ~NoOutput(run.draft)
AttachesImage == "post with image" \in Range(net)

\* C14: a Networker that returns nothing saves no comment pack and does not
\* stop the run, and whatever the review returned (feedback, None or empty
\* text) publish is invoked next, with the draft text unchanged.
C14_NetworkingAndReviewAreNotFatal ==
    /\ (Entered("Networking") /\ NoOutput(run.pack)) => PersistedPack = PackBefore
    /\ (Entered("Networking") /\ NoOutput(run.pack) /\ CompleteRun) => Entered("Publish")
    /\ (Entered("Review") /\ run.stage # "publish") =>
          /\ Entered("Publish")
          /\ run.posted = run.draft
    /\ CompleteRun => Entered("Review") /\ Entered("Publish") /\ run.posted = run.draft
C14_Witness ==
    /\ run.stage = "done"
    /\ run.pack = None
    /\ run.feedback = None
    /\ Entered("Publish")
    /\ run.posted = "text"
    /\ run.publish = "accepted"

\* C15: when the ArtDirector returns no visual concept and the Ghostwriter
\* returned text, the run publishes the text alone: no photograph is sourced,
\* no image is generated and none is attached to the post.
C15_FailedVisualPublishesTextOnly ==
    (CompleteRun /\ NoOutput(run.visual)) =>
        /\ Entered("Publish")
        /\ run.organic # "img"
        /\ run.synthetic # "img"
        /\ run.image = None
        /\ ~AttachesImage

\* The photograph search was chosen and gave no image.
SourcingFailed == Entered("Image") /\ run.organic = None
GenerationAttempted == run.synthetic # NotRun

\* C16 as stated: when sourcing a photograph was chosen and gave nothing,
\* synthetic generation is attempted; when that fails too the post goes out
\* as text; an image failure never keeps publish from being attempted.
C16_FailedSourcingFallsBackToGeneration ==
    /\ SourcingFailed => GenerationAttempted
    /\ (SourcingFailed /\ ~Truthy(run.synthetic) /\ CompleteRun) => ~AttachesImage
    /\ CompleteRun => Entered("Publish")

\* C16 amended: when sourcing a photograph was chosen and gave nothing,
\* synthetic generation is attempted if and only if image generation is
\* enabled in the configuration; when it is disabled or fails too the post
\* goes out as text; no failure of sourcing, generation or upload keeps
\* publish from being attempted.
C16_FallsBackToGenerationWhenEnabled ==
    /\ SourcingFailed => (GenerationAttempted <=> run.generation = "on")
    /\ (SourcingFailed /\ run.synthetic \in {NotRun, None}) => run.image = None
    /\ (SourcingFailed /\ run.synthetic \in {NotRun, None} /\ CompleteRun) =>
          /\ ~AttachesImage
          /\ run.publish # "no credentials" => net = <<"post text only">>
    /\ CompleteRun =>
          /\ Entered("Publish")
          /\ run.publish # "no credentials" =>
                net[Len(net)] \in {"post with image", "post text only"}
C16_Witness ==
    /\ CompleteRun
    /\ run.organic = None
    /\ run.generation = "on"
    /\ run.synthetic = None
    /\ run.publish = "accepted"
    /\ net = <<"post text only">>

\* C17 as stated: for a vibe that is not organic the image step never
\* sources a photograph and always invokes synthetic generation.
C17_NonOrganicAlwaysGenerates ==
    (Entered("Image") /\ ~IsOrganic(run.vibe)) =>
        /\ run.organic = NotRun
        /\ GenerationAttempted

\* C17 amended: for a vibe that is not organic the image step never sources
\* a photograph, and it invokes synthetic generation if and only if image
\* generation is enabled in the configuration.
C17_NonOrganicNeverSources ==
    (Entered("Image") /\ run.vibe \in VibeNames /\ run.vibe # "The Storyteller") =>
        /\ run.organic = NotRun
        /\ ~run.sourced
        /\ GenerationAttempted <=> run.generation = "on"
C17_Witness ==
    /\ Entered("Image")
    /\ run.vibe = "The Contrarian"
    /\ run.generation = "on"
    /\ run.organic = NotRun
    /\ run.synthetic = "img"

\* ---- Critic.run

\* The remainder of a marked line after its leading marker, trimmed.
AfterLeadingMarker(line) == Strip(Tail(Strip(line)))
RECURSIVE MarkedRemainders(_)
MarkedRemainders(lines) ==
    IF lines = <<>> THEN <<>>
    ELSE (IF Strip(Head(lines)) # <<>> /\ Head(Strip(Head(lines))) = "RULE:"
          THEN <<AfterLeadingMarker(Head(lines))>> ELSE <<>>)
            \o MarkedRemainders(Tail(lines))

\* C18: with feedback obtained, the texts passed to add_rule are, in line
\* order, exactly the trimmed remainders after the leading marker of the
\* lines that begin (trimmed) with "RULE:"; no other line gives a rule.
C18_RulesAreMarkedLineRemainders ==
    (critic.pc = "returned" /\ critic.ret # ReturnsNone) =>
        critic.added = MarkedRemainders(critic.feedback.lines)

\* C19: when the generation call of the review gives None or empty text,
\* Critic.run returns None, calls add_rule for nothing and leaves the store
\* file as it was.
C19_FailedReviewAddsNoRule ==
    (critic.pc = "returned" /\ (critic.feedback.kind = "None" \/ critic.feedback.lines = << <<>> >>)) =>
        /\ critic.ret = ReturnsNone
        /\ critic.added = <<>>
        /\ file = JsonFile(critic.before)
        /\ seenRules = critic.before.rules
C19_Witness ==
    /\ critic.pc = "returned"
    /\ critic.feedback = EmptyFeedback
    /\ critic.ret = ReturnsNone
    /\ critic.before.history # <<>>

\* ---- rules from one run to the next

\* C20: the input the Ghostwriter passes to generation is its own input
\* followed by all the rules persisted when it runs, in stored order, so it
\* holds every rule that the review of an earlier run persisted; with no
\* rule persisted it is the input alone.
C20_GhostwriterSeesPersistedRules ==
    Entered("DraftText") =>
        /\ run.ghost.input = run.strategy
        /\ \A rule \in run.earlier : rule \in Range(run.ghost.rules)
        /\ run.ghost.header <=> run.ghost.rules # <<>>
        /\ run.stage \in {"draft_visual", "image", "review"} =>
              run.ghost.rules = LoadStore(file).rules
        /\ before.rules = <<>> => run.ghost = [input |-> run.strategy, header |-> FALSE, rules |-> <<>>]
C20_Witness ==
    /\ run.number = 2
    /\ run.earlier = {OwnRule("w1", 0), OwnRule("w2", 0)}
    /\ Entered("DraftText")
    /\ run.ghost = [input |-> "text", header |-> TRUE,
                    rules |-> <<OwnRule("w1", 0), OwnRule("w2", 0)>>]

\* What a section of the document holds, by what its source did.
SectionFor(source) ==
    [section |-> source,
     data |-> IF research.outcome[source] = "raises" THEN Unavailable(source)
              ELSE IF research.outcome[source] = "content" THEN Content(source)
              ELSE IF research.outcome[source] = "no key" THEN EmptyText(source)
              ELSE ErrorText(source)]
\* A source failed: its request, or its task. A placeholder: the text that
\* stands for a failed source.
FailedSource(source) == research.outcome[source] \in {"error", "raises"}
IsPlaceholder(text) == text.kind \in {"error text", "unavailable"}

\* C21: for given responses of the four sources, the document is the same
\* whatever the order in which the fetches finished: its sections are those
\* of HackerNews, NewsAPI, arXiv and Tavily, in that order, each holding what
\* that source answered.
C21_DocumentIndependentOfCompletionOrder ==
    research.pc \in {"synthesis", "returned"} =>
        research.full_input = << SectionFor("hackernews"), SectionFor("newsapi"),
                                 SectionFor("arxiv"), SectionFor("tavily") >>
C21_Witness ==
    /\ research.pc = "returned"
    /\ research.keys = <<"tavily", "arxiv", "newsapi", "hackernews">>
    /\ \A i \in 1 .. 4 : research.full_input[i].data = Content(Sources[i])

\* C22: whichever sources fail, the document holds a placeholder for exactly
\* those and the fetched text for the others; the failure of a task is logged
\* and goes no further, and the call returns what the synthesis returned.
C22_PlaceholdersForExactlyTheFailedSources ==
    /\ research.pc \in {"synthesis", "returned"} =>
        \A i \in 1 .. Len(Sources) :
            /\ Len(research.full_input) = Len(Sources)
            /\ research.full_input[i].section = Sources[i]
            /\ FailedSource(Sources[i]) <=> IsPlaceholder(research.full_input[i].data)
            /\ ~FailedSource(Sources[i]) =>
                   research.full_input[i].data = Returned(Sources[i], research.outcome[Sources[i]])
    /\ research.pc = "returned" => research.ret \in AgentOutputs
    /\ research.warned = {s \in SourceNames : research.task[s] = "collected" /\ research.outcome[s] = "raises"}
C22_Witness ==
    /\ research.pc = "returned"
    /\ research.ret = "text"
    /\ research.outcome["hackernews"] = "raises"
    /\ research.outcome["arxiv"] = "error"
    /\ research.outcome["newsapi"] = "content"
    /\ research.outcome["tavily"] = "content"

\* C23: once the fetches are submitted, the call gets to the synthesis, even
\* when a fetch never returns.
C23_ResearchProceedsToSynthesis ==
    (research.pc = "as_completed") ~> (research.pc \in {"synthesis", "returned"})

\* C24: while the file holds text that is not valid JSON, no call raises:
\* get_rules returns the empty list, get_performance_insights finds no data,
\* and every other operation works on the empty store, so that what it is
\* about to save holds nothing of the damaged text.
C24_CorruptFileReadsAsEmpty ==
    [][\A w \in Workers :
        file.kind \in {"corrupt", "partial"} =>
            /\ GetRules(w) => result'[w] = [kind |-> "rules", value |-> <<>>]
            /\ GetPerformanceInsights(w) =>
                   result'[w] = [kind |-> "insights", value |-> [kind |-> "no data", vibe |-> None]]
            /\ (GetRules(w) \/ GetPerformanceInsights(w)) => "corrupted" \in log'
            /\ AddRuleLoad(w) =>
                   pc'[w] = "save" /\ data'[w].rules = <<op[w].rule>> /\ data'[w].history = <<>>
            /\ AddPostHistoryLoad(w) =>
                   data'[w].rules = <<>> /\ Len(data'[w].history) = 1
            /\ (UpdatePostStatsLoad(w) \/ SaveCommentPackLoad(w)) =>
                   data'[w].rules = <<>> /\ data'[w].history = <<>>
            /\ ArchiveOldPostsLoad(w) =>
                   result'[w] = [kind |-> "count", value |-> 0] /\ moved'[w] = <<>>
      ]_vars
C24_Witness ==
    /\ file = CorruptFile(DamagedStore)
    /\ "corrupted" \in log
    /\ result["w1"] = [kind |-> "rules", value |-> <<>>]
    /\ result["w2"] = [kind |-> "memory", value |-> "found"]

\* C25: making a Memory on a path without a file writes exactly the empty
\* store there; a file that exists is never written by the constructor, and
\* a read never writes it, so a later Memory finds the rules and records
\* written in between.
C25_SeedsOnlyAMissingFile ==
    [][\A w \in Workers :
        /\ (SaveDump(w) /\ op[w].name = "__init__") =>
               file' = JsonFile([rules |-> <<>>, history |-> <<>>,
                                 latest_comment_pack |-> None, last_updated |-> None])
        /\ (SaveOpen(w) /\ op[w].name = "__init__") => file = AbsentFile
        /\ (MemoryInit(w) /\ file # AbsentFile) => pc'[w] = "idle" /\ file' = file
        /\ (MemoryInit(w) /\ file = AbsentFile) => pc'[w] = "save"
        /\ (GetRules(w) \/ GetPerformanceInsights(w)) => file' = file
      ]_vars
C25_Witness ==
    /\ result["w1"] = [kind |-> "memory", value |-> "seeded"]
    /\ result["w2"] = [kind |-> "memory", value |-> "found"]
    /\ file.kind = "json"
    /\ file.store.rules # <<>>
    /\ Quiescent

\* The records of a history whose date lies before the cutoff, and the others.
OlderThan(h, cutoff) == LET Old(p) == p.date.t < cutoff IN SelectSeq(h, Old)
NotOlderThan(h, cutoff) == LET New(p) == ~(p.date.t < cutoff) IN SelectSeq(h, New)
\* The same record, whatever its stats.
SameRecord(p, q) ==
    p.urn = q.urn /\ p.date = q.date /\ p.topic = q.topic /\ p.vibe = q.vibe

\* C26: in the stored history no two records have the same urn.
C26_UrnsAreUnique ==
    file.kind = "json" =>
        \A i, j \in 1 .. Len(file.store.history) :
            file.store.history[i].urn = file.store.history[j].urn => i = j

\* C27: archive_old_posts takes out of the history exactly the records whose
\* date is strictly before the cutoff and keeps the others in their order,
\* adds the records it took to the archive, and returns their number.
C27_ArchivesExactlyTheStrictlyOlder ==
    /\ [][\A w \in Workers :
            ArchiveOldPostsLoad(w) =>
                /\ moved'[w] = OlderThan(LoadStore(file).history, op[w].cutoff)
                /\ moved'[w] # <<>> =>
                       data'[w].history = NotOlderThan(LoadStore(file).history, op[w].cutoff)
         ]_vars
    /\ [][\A w \in Workers : ArchiveWrite(w) => archive' = archive \o moved[w]]_vars
    /\ [][\A w \in Workers :
            (SaveDump(w) /\ op[w].name = "archive_old_posts") =>
                /\ result'[w] = [kind |-> "count", value |-> Len(moved[w])]
                /\ file' = JsonFile(data[w])
         ]_vars

\* C28: a record that add_post_history wrote and that is older than the
\* retention window when archive_old_posts runs is among the records this
\* call moves to the archive.
C28_PublishedRecordsGetArchived ==
    [][\A w \in Workers :
        ArchiveOldPostsLoad(w) =>
            \A i \in 1 .. Len(LoadStore(file).history) :
                LET post == LoadStore(file).history[i] IN
                (post.date = IsoDate /\ post.date.t < op[w].cutoff) =>
                    \E k \in 1 .. Len(moved'[w]) : moved'[w][k] = post
      ]_vars

\* C29: whenever no call is under way, every record the history started with
\* is in the history or in the archive.
C29_RecordsNeverDeleted ==
    (Quiescent /\ file.kind = "json") =>
        \A i \in 1 .. Len(before.history) :
            \/ \E k \in 1 .. Len(file.store.history) :
                   SameRecord(file.store.history[k], before.history[i])
            \/ \E k \in 1 .. Len(archive) : SameRecord(archive[k], before.history[i])

\* C30: update_post_stats saves the store it loaded with the stats of the
\* first record with the urn replaced and everything else as it was: the
\* rules, the comment pack, the number and order of the records, their other
\* fields, and the records with another urn; with no record of that urn it
\* saves what it loaded.
C30_UpdatePostStatsChangesOnlyTheStats ==
    /\ [][\A w \in Workers :
            UpdatePostStatsLoad(w) =>
                LET d == file.store
                    e == data'[w]
                    u == op[w].urn
                    Matches == {i \in 1 .. Len(d.history) : d.history[i].urn = u}
                IN  /\ file.kind = "json"
                    /\ pc'[w] = "save"
                    /\ e.rules = d.rules
                    /\ e.latest_comment_pack = d.latest_comment_pack
                    /\ e.last_updated = d.last_updated
                    /\ Len(e.history) = Len(d.history)
                    /\ \A i \in 1 .. Len(d.history) :
                          /\ SameRecord(e.history[i], d.history[i])
                          /\ i \notin Matches => e.history[i] = d.history[i]
                    /\ Matches # {} =>
                          \E i \in Matches :
                              e.history[i].stats = [likes |-> op[w].likes, comments |-> op[w].comments]
                    /\ Matches = {} => e = d
         ]_vars
    /\ [](\A w \in Workers :
            (pc[w] = "unlock" /\ op[w].name = "update_post_stats") => file = JsonFile(data[w]))
C30_Witness ==
    /\ Quiescent
    /\ file.kind = "json"
    /\ file.store.rules # <<>>
    /\ Len(file.store.history) = 2
    /\ file.store.history[1] = [LegacyRecord EXCEPT !.stats = [likes |-> 1, comments |-> 1]]
    /\ file.store.history[2] = NewPost("X", "The Contrarian", "urn:1")

\* C31: add_post_history saves the store it loaded with one record added at
\* the end of the history, carrying the topic, vibe and urn of the call and
\* zero likes and comments; the rules, the comment pack and the records that
\* were there are as they were.
C31_AddPostHistoryAppendsOneRecord ==
    /\ [][\A w \in Workers :
            AddPostHistoryLoad(w) =>
                LET d == file.store
                    e == data'[w]
                    n == Len(d.history)
                IN  /\ file.kind = "json"
                    /\ pc'[w] = "save"
                    /\ e.rules = d.rules
                    /\ e.latest_comment_pack = d.latest_comment_pack
                    /\ e.last_updated = d.last_updated
                    /\ Len(e.history) = n + 1
                    /\ \A i \in 1 .. n : e.history[i] = d.history[i]
                    /\ e.history[n + 1].topic = op[w].topic
                    /\ e.history[n + 1].vibe = op[w].vibe
                    /\ e.history[n + 1].urn = op[w].urn
                    /\ e.history[n + 1].stats = [likes |-> 0, comments |-> 0]
         ]_vars
    /\ [](\A w \in Workers :
            (pc[w] = "unlock" /\ op[w].name = "add_post_history") => file = JsonFile(data[w]))
C31_Witness ==
    /\ Quiescent
    /\ file.kind = "json"
    /\ file.store.rules # <<>>
    /\ file.store.history =
          <<LegacyRecord,
            [date |-> IsoDate, topic |-> "X", vibe |-> "The Contrarian", urn |-> "urn:1",
             stats |-> [likes |-> 0, comments |-> 0]]>>

\* The highest like count of a history.
MaxLikes(h) ==
    CHOOSE m \in {h[i].stats.likes : i \in 1 .. Len(h)} :
        \A i \in 1 .. Len(h) : h[i].stats.likes <= m

\* C32: get_performance_insights says "no data" for an empty history, "not
\* enough data" when the highest like count is 0, and otherwise names the
\* variant of a record whose like count is the highest; for like counts 10,
\* 25, 3 of the variants A, B, C it names B.
C32_InsightsNameABestVariant ==
    \A w \in Workers :
        result[w].kind = "insights" =>
            LET h == file.store.history
                said == result[w].value
            IN  /\ h = <<>> => said = [kind |-> "no data", vibe |-> None]
                /\ (h # <<>> /\ MaxLikes(h) = 0) => said = [kind |-> "not enough", vibe |-> None]
                /\ (h # <<>> /\ MaxLikes(h) > 0) =>
                       /\ said.kind = "best"
                       /\ \E i \in 1 .. Len(h) :
                             h[i].stats.likes = MaxLikes(h) /\ h[i].vibe = said.vibe
                /\ (Len(h) = 3 /\ h[1].stats.likes = 10 /\ h[2].stats.likes = 25
                               /\ h[3].stats.likes = 3) => said.vibe = "B"
C32_Witness ==
    /\ Len(file.store.history) = 3
    /\ file.store.history[1].stats.likes = 10
    /\ file.store.history[2].stats.likes = 25
    /\ file.store.history[3].stats.likes = 3
    /\ result["w1"] = [kind |-> "insights", value |-> [kind |-> "best", vibe |-> "B"]]

\* C33: a run that ended without reaching the RecordHistory step, stopped by
\* a signal or by a failed stage, leaves the history that the store gives
\* to its next reader as it was when the run started.
C33_UnrecordedRunLeavesHistory ==
    (run.stage = "done" /\ "RecordHistory" \notin Range(trace)) =>
        LoadStore(file).history = before.history

\* The variants the configuration enables.
EnabledSet(enabled) == IF enabled.all THEN VibeNames ELSE enabled.names

\* C34: with FORCED_VIBE set the run uses that variant, without it a variant
\* of the enabled set, and in both cases a defined variant.
C34_SelectionHonorsOverride ==
    [][\A forced \in ForcedVibes, enabled \in EnabledPersonas :
        SelectStyle(forced, enabled) =>
            /\ Truthy(forced) => run'.vibe = forced
            /\ ~Truthy(forced) => run'.vibe \in EnabledSet(enabled)
            /\ run'.vibe \in VibeNames
      ]_vars

\* C34, amended: with FORCED_VIBE naming a defined variant the run uses that
\* variant; otherwise, FORCED_VIBE unset or naming no variant, the name is
\* drawn from the enabled set, the run goes on only with a defined variant of
\* that set, and it ends at the selection with an exception when the set is
\* empty or the name drawn is not a defined variant.
C34_SelectionHonorsDefinedOverride ==
    [][\A forced \in ForcedVibes, enabled \in EnabledPersonas :
        SelectStyle(forced, enabled) =>
            /\ run'.stage \in {"research", "done"}
            /\ forced \in VibeNames => (run'.stage = "research" /\ run'.vibe = forced)
            /\ (forced \notin VibeNames /\ run'.stage = "research") =>
                   run'.vibe \in (EnabledSet(enabled) \cap VibeNames)
            /\ run'.stage = "done" =>
                   /\ forced \notin VibeNames
                   /\ run'.vibe = NotRun
                   /\ \/ run'.exc = "IndexError" /\ EnabledSet(enabled) = {}
                      \/ run'.exc = "KeyError" /\ EnabledSet(enabled) \ VibeNames # {}
      ]_vars
C34_Witness ==
    /\ run.number = 2
    /\ run.stage = "research"
    /\ run.vibe = "The Storyteller"
    /\ Len(file.store.history) = 1
    /\ file.store.history[1].vibe = "The Contrarian"
    /\ file.store.history[1].date = IsoDate

\* C35: the wait after the rate-limited attempt with index k is
\* base_delay * 2^k plus a jitter between 0 and 1; there is a wait only when a
\* further attempt remains, so none after the final attempt; and the waits do
\* not decrease from one attempt to the next.
C35_BackoffDoublesAndStopsBeforeLastAttempt ==
    agent.api_key = "key" =>
        /\ \A i \in 1 .. Len(agent.waits) :
              /\ i <= agent.max_retries - 1
              /\ RateLimited(agent.outcomes[i]) =>
                     /\ agent.base_delay * (2 ^ (i - 1)) <= agent.waits[i]
                     /\ agent.waits[i] <= agent.base_delay * (2 ^ (i - 1)) + 1
        /\ \A i, j \in 1 .. Len(agent.waits) : i < j => agent.waits[i] <= agent.waits[j]
        /\ agent.pc = "sleep" => agent.attempt < agent.max_retries - 1
        /\ (agent.pc = "returned" /\ agent.outcomes # <<>> /\ AllRateLimited(agent.outcomes)) =>
               Len(agent.waits) = agent.max_retries - 1
C35_Witness ==
    /\ agent.pc = "returned"
    /\ agent.base_delay = 1
    /\ agent.max_retries = 3
    /\ agent.outcomes = <<"rate limit", "rate limit", "rate limit">>
    /\ agent.waits = <<2, 2>>

\* Every call any worker is going to make has been made.
AllCallsMade == ~Budget \/ \A w \in Workers : calls[w] >= MaxCalls

\* C36: the add_rule, add_post_history and update_post_stats calls of the
\* workers all come to their end: in the end every call has been made, no
\* worker is inside an operation and the lock is free.
C36_LockedOperationsTerminate ==
    <>[](AllCallsMade /\ Quiescent /\ lock.owner = NoOwner /\ lock.count = 0)
C36_Witness ==
    /\ AllCallsMade
    /\ Quiescent
    /\ lock.owner = NoOwner
    /\ calls["w1"] >= 1
    /\ calls["w2"] >= 1
    /\ file.kind = "json"
    /\ file.store.rules # <<>>
    /\ Len(file.store.history) = 2

\* C37: the constructor's seeding write never replaces a file that holds a
\* rule or a record.
C37_SeedingOverwritesNothing ==
    [][\A w \in Workers :
        (SaveOpen(w) /\ op[w].name = "__init__") =>
            (file.kind = "json" => (file.store.rules = <<>> /\ file.store.history = <<>>))
      ]_vars

\* C38: a run whose publish request was accepted by LinkedIn has written a
\* record for the post to the history when it ends.
C38_AcceptedPostIsRecorded ==
    (run.stage = "done" /\ run.publish \in {"accepted", "accepted without id"}) =>
        /\ Entered("RecordHistory")
        /\ Len(PersistedHistory) = Len(before.history) + 1

\* C39: from the moment publish is about to be attempted, the rules of the
\* review's marked lines are in the store, and they still are when the run
\* has ended, also when publish failed and no record was written.
C39_ReviewRulesPersistBeforePublish ==
    (Entered("Review") /\ Truthy(run.feedback) /\ run.stage \in {"publish", "record", "done"}) =>
        /\ file.kind = "json"
        /\ \A i \in 1 .. Len(run.lines) :
              run.lines[i].marker => run.lines[i].text \in Range(file.store.rules)
        /\ (run.stage = "publish") => ~Entered("Publish")
C39_Witness ==
    /\ run.stage = "done"
    /\ run.publish = "request failed"
    /\ Truthy(run.feedback)
    /\ \E i \in 1 .. Len(run.lines) : run.lines[i].marker
    /\ \A i \in 1 .. Len(run.lines) :
          run.lines[i].marker => run.lines[i].text \in Range(file.store.rules)
    /\ before.rules = <<>>
    /\ PersistedHistory = before.history
    /\ ~Entered("RecordHistory")

\* C40: no rule in the store is the empty text.
C40_PersistedRulesAreNonEmpty ==
    file.kind = "json" =>
        \A i \in 1 .. Len(file.store.rules) : file.store.rules[i] # <<>>

====
